---------------------------- MODULE Spec2Model ----------------------------
(***************************************************************************)
(* The three routers of Operations_Router_ACCESSDB                         *)
(*   bin/router_accessdb-fos.py   (fields of science,   router = "fos")    *)
(*   bin/route_xdcdb-users.py     (user/resource map,   router = "users")  *)
(*   bin/route_xdcdb-persons.py   (persons,             router = "persons")*)
(* as one state machine.  A behaviour is a sequence of process invocations *)
(* of one router against one destination store that starts empty; between *)
(* invocations the source store may change.  Inside an invocation every    *)
(* loop iteration of the reconciler is one step.                           *)
(*                                                                         *)
(* Python values are tagged tuples: <<"NoneType">>, <<"str", chars>>,      *)
(* <<"int", n>>; a string is the sequence of its characters.               *)
(***************************************************************************)
EXTENDS Integers, Sequences, FiniteSets, TLC

\* ------------------------------------------------------------------ bounds
\* Number of successive invocations of the router in one behaviour.
MaxRuns == 2
\* Identifiers (field_of_science_id, person_id) range over 1..MaxId.
MaxId == 2
\* Number of fos processes started side by side, and destination accesses of one Run.
NumInstances == 2
MaxAccess == 2

\* ----------------------------------------------------------- Python values
PyNone == <<"NoneType">>
PyS(s) == <<"str", s>>
PyI(n) == <<"int", n>>
IsStr(v) == v[1] = "str"

s_none == <<"n", "o", "n", "e">>
s_NONE == <<"N", "O", "N", "E">>
s_None == <<"N", "o", "n", "e">>
s_X == <<"X">>
s_Y == <<"Y">>
s_empty == <<>>

\* str.lower() on one character, over the characters the model uses.
LowerChar(c) ==
  CASE c = "N" -> "n"
    [] c = "O" -> "o"
    [] c = "E" -> "e"
    [] c = "X" -> "x"
    [] c = "Y" -> "y"
    [] OTHER -> c
Lower(s) == [i \in 1..Len(s) |-> LowerChar(s[i])]

DigitChars == <<"0", "1", "2", "3", "4", "5", "6", "7", "8", "9">>
RECURSIVE Digits(_)
Digits(n) == IF n < 10 THEN <<DigitChars[n + 1]>>
             ELSE Digits(n \div 10) \o <<DigitChars[(n % 10) + 1]>>

\* str(v)
PyStr(v) ==
  CASE v[1] = "NoneType" -> s_None
    [] v[1] = "str" -> v[2]
    [] v[1] = "int" -> Digits(v[2])

\* repr(v), as str(dict) renders a value
PyRepr(v) ==
  CASE v[1] = "NoneType" -> s_None
    [] v[1] = "str" -> <<"'">> \o v[2] \o <<"'">>
    [] v[1] = "int" -> Digits(v[2])

\* isinstance(v, str) and v.lower() == 'none'
IsNoneString(v) == IsStr(v) /\ Lower(v[2]) = s_none

\* ---------------------------------------- dicts with insertion order
\* A Python dict is the sequence of its <<key, value>> items in insertion order.
DictKeys(d) == {d[i][1] : i \in 1..Len(d)}
DictGet(d, k) == LET i == CHOOSE j \in 1..Len(d) : d[j][1] = k IN d[i][2]
DictSet(d, k, v) == [i \in 1..Len(d) |-> IF d[i][1] = k THEN <<k, v>> ELSE d[i]]

\* All orderings of a finite set, as sequences without repetition.
Perms(S) == {p \in [1..Cardinality(S) -> S] : \A i, j \in 1..Cardinality(S) : p[i] = p[j] => i = j}

\* Remove the mapping of key k from function f.
DropKey(f, k) == [x \in (DOMAIN f) \ {k} |-> f[x]]
\* Function f extended or overwritten at k.
PutKey(f, k, v) == [x \in (DOMAIN f) \cup {k} |-> IF x = k THEN v ELSE f[x]]
EmptyMap == [x \in {} |-> 0]


\* ------------------------------------------------------------- state
VARIABLES
  router,      \* which of the three scripts this behaviour runs
  args,        \* the source URL and the destination the script is started with
  pc,          \* position of the process: idle, connect, retrieve, snapshot, apply, delete, report, ended
  runNo,       \* number of invocations started so far
  source,      \* content of the source store
  cols,        \* cursor.description: the column order of the source view
  dest,        \* content of the destination store
  cursorOpen,  \* the cursor returned by Connect_Source is open
  INPUT,       \* the mapping returned by Retrieve_Source / Retrieve_Usermap
  todo,        \* keys of new_items not yet visited by the create/update loop
  cur,         \* self.cur
  curdigest,   \* self.curdigest
  delTodo,     \* entries of self.cur not yet visited by the delete loop
  STATS,       \* the run's counters
  hist,        \* what the reconciler did in this invocation, one event per loop iteration
  logged,      \* logger.error records of this invocation
  pa,          \* the run tracker (ProcessingActivity) as seen from outside
  rc,          \* value returned by Store_Destination / Warehouse_Usermap
  outcome,     \* how the invocation ended
  exitStatus,  \* exit status of the invocation
  runInfo,     \* whether the source is as the previous invocation read it, and that invocation's success
  local,       \* router-specific locals (users: person_id and the next surrogate key)
  inst,        \* the fos processes started side by side: position in __main__, rc, exit status
  pidfile,     \* the process holding the PID file, or Free
  destLog      \* the processes' accesses to the destination, in the order they happened

pidVars == <<inst, pidfile, destLog>>

vars == <<pidVars, router, args, pc, runNo, source, cols, dest, cursorOpen, INPUT, todo, cur, curdigest,
          delTodo, STATS, hist, logged, pa, rc, outcome, exitStatus, runInfo, local>>

Routers == {"fos", "users", "persons"}
Ids == 1..MaxId

ZeroStats == [Update |-> 0, Delete |-> 0, Skip |-> 0]
NoTracker == [started |-> 0, finished |-> 0, rc |-> "unset", summary |-> <<>>]
Bump(stats, name) == [stats EXCEPT ![name] = @ + 1]

\* --------------------------------------------- fields of science: data
\* The columns of info_services.fosv / fields of FieldOfScience the model keeps:
\* the key, one text column that Retrieve_Source normalizes, one text column it
\* does not, and one column that is stored without str().
F_ID == "field_of_science_id"
F_ABBREV == "fos_nsf_abbrev"
F_SOURCE == "fos_source"
F_NSFID == "fos_nsf_id"
FosFieldSet == {F_ID, F_ABBREV, F_SOURCE, F_NSFID}

\* Python's str ordering on the field names.
KeyRank(k) ==
  CASE k = F_ID -> 1
    [] k = F_ABBREV -> 2
    [] k = F_NSFID -> 3
    [] k = F_SOURCE -> 4

\* Field order of model_to_dict(item).
ModelFieldOrder == <<F_ID, F_NSFID, F_ABBREV, F_SOURCE>>
\* Column orders the source view may have.
ColOrders == {<<F_SOURCE, F_ID, F_NSFID, F_ABBREV>>, <<F_ID, F_ABBREV, F_NSFID, F_SOURCE>>}

\* Values of the two text columns in the rows of field 1: every spelling of "no
\* value" in fos_nsf_abbrev, and None and 'none' in fos_source.
AbbrevVals == {PyNone, PyS(s_none), PyS(s_NONE), PyS(s_empty), PyS(s_X)}
SourceVals == {PyNone, PyS(s_none), PyS(s_X)}

FosRow(id, a, s) ==
  [f \in FosFieldSet |->
     CASE f = F_ID -> PyI(id)
       [] f = F_ABBREV -> a
       [] f = F_SOURCE -> s
       [] f = F_NSFID -> IF id = 1 THEN PyI(7) ELSE PyNone]
FosRowsOf(id) ==
  IF id = 1 THEN {FosRow(1, a, PyS(s_X)) : a \in AbbrevVals} \cup {FosRow(1, PyS(s_X), s) : s \in SourceVals}
  ELSE {FosRow(id, PyS(s_X), PyS(s_Y))}
\* Contents of the view: at most one row per field_of_science_id.
FosSources ==
  UNION {{f \in [I -> UNION {FosRowsOf(i) : i \in I}] : \A i \in I : f[i] \in FosRowsOf(i)}
         : I \in SUBSET Ids}

\* --------------------------------------------- fields of science: digest
\* sorted(xdict.items()): insertion sort by key (keys are unique).
RECURSIVE InsertItem(_, _)
InsertItem(sorted, item) ==
  IF sorted = <<>> THEN <<item>>
  ELSE IF KeyRank(item[1]) < KeyRank(Head(sorted)[1]) THEN <<item>> \o sorted
  ELSE <<Head(sorted)>> \o InsertItem(Tail(sorted), item)
\* xdict.items() taken in dict order, without sorted().
ItemsInDictOrder(d) == d
RECURSIVE SortedItems(_)
SortedItems(d) ==
  IF d = <<>> THEN <<>> ELSE InsertItem(SortedItems(Tail(d)), Head(d))

\* str(sdict): the items in dict order, each value rendered by repr().
StrDict(d) == [i \in 1..Len(d) |-> <<d[i][1], PyRepr(d[i][2])>>]
\* hashlib.md5(..).digest(), taken to be collision free.
MD5(bytes) == <<"md5", bytes>>
\* The digest of a dict as both loops of Store_Destination compute it.
Digest(d) == MD5(StrDict(SortedItems(d)))

\* dict(zip(COLS, row)) followed by the fos_nsf_abbrev normalization.
FosRowdict(row) ==
  LET rowdict == [i \in 1..Len(cols) |-> <<cols[i], row[cols[i]]>>]
      na == DictGet(rowdict, F_ABBREV)
  IN IF IsNoneString(na) THEN DictSet(rowdict, F_ABBREV, PyNone) ELSE rowdict

\* model_to_dict(item) followed by the 'none' normalization of every field.
FosXdict(item) ==
  [i \in 1..Len(ModelFieldOrder) |->
     LET f == ModelFieldOrder[i]
     IN <<f, IF IsNoneString(item[f]) THEN PyNone ELSE item[f]>>]

\* The record update_or_create stores for nitem.
FosDefaults(nitem) ==
  [f \in FosFieldSet |->
     CASE f = F_ID -> DictGet(nitem, F_ID)
       [] f = F_NSFID -> DictGet(nitem, F_NSFID)
       [] f = F_ABBREV -> PyS(PyStr(DictGet(nitem, F_ABBREV)))
       [] f = F_SOURCE -> PyS(PyStr(DictGet(nitem, F_SOURCE)))]

\* self.curdigest.get(new_id, '')
CurDigestGet(new_id) == IF new_id \in DOMAIN curdigest THEN curdigest[new_id] ELSE <<"str", s_empty>>

\* A test by presence in the snapshot alone, as Warehouse_Usermap makes it.
FosUnchangedByPresence(new_id) == new_id \in DOMAIN curdigest
\* The test of line 244: the source digest equals the snapshot's digest.
FosUnchanged(new_id) == Digest(INPUT[new_id]) = CurDigestGet(new_id)


\* ------------------------------------------------------ users: data
\* Rows of info_services.xsede_local_usermap: the two key columns and person_id,
\* which stands for the columns that are copied and never compared.
UserRow(u, r, p) == [username |-> PyS(u), resource_name |-> PyS(r), person_id |-> PyI(p)]
UserRowsOf(u, r) ==
  IF u = <<"a">> /\ r = <<"c">> THEN {UserRow(u, r, 1), UserRow(u, r, 2)} ELSE {UserRow(u, r, 1)}
\* (username, resource_name) pairs of the view; ("a","bc") and ("ab","c") concatenate
\* to the same string.
UserPairs == {<<<<"a">>, <<"c">>>>, <<<<"a">>, <<"b", "c">>>>, <<<<"a", "b">>, <<"c">>>>}
\* Contents of the view: at most one row per (username, resource_name).
UsersSources ==
  {S \in SUBSET UNION {UserRowsOf(q[1], q[2]) : q \in UserPairs} :
     \A x, y \in S : (x.username = y.username /\ x.resource_name = y.resource_name) => x = y}

\* str(rowdict['username'])+str(rowdict['resource_name'])
UsermapKey(row) == PyStr(row.username) \o PyStr(row.resource_name)

\* The XSEDELocalUsermap instance built from nitem.
UsermapModel(nitem) ==
  [local_username |-> PyS(PyStr(nitem.username)),
   resource_name |-> PyS(PyStr(nitem.resource_name)),
   person_id |-> nitem.person_id]

\* str(item.local_username)+str(item.resource_name) of the delete loop
Compstring(item) == PyStr(item.local_username) \o PyStr(item.resource_name)

\* self.cur[resource][local_user] is kept as one map from <<resource, local_user>> to
\* the primary key of the item.  "nitem['resource_name'] in self.cur and
\* nitem['username'] in self.cur[nitem['resource_name']]":
UsermapInCur(nitem) ==
  /\ IsStr(nitem.resource_name)
  /\ IsStr(nitem.username)
  /\ <<nitem.resource_name[2], nitem.username[2]>> \in DOMAIN cur

\* ---------------------------------------------------- persons: data
\* Columns of info_services.person_v.  Store_Destination reads nitem['addresses'],
\* nitem['citizenships'] and nitem['emails'] from the person row, so whether the
\* view has columns of these names decides how far the loop gets; both are modelled.
PersonBaseCols == <<"person_id", "last_name">>
PersonAggCols == <<"addresses", "citizenships", "emails">>
PersonColOrders == {PersonBaseCols, PersonBaseCols \o PersonAggCols}
SeqToSet(s) == {s[i] : i \in 1..Len(s)}

AddressRow(p, a) == [person_id |-> p, addr |-> PyS(a)]
CitizenshipRow(p, c) == [person_id |-> p, country |-> c]
EmailRow(p, e) == [person_id |-> p, Email |-> e]
\* Contents of the three child views.
ChildTables ==
  {[address |-> {}, citizenship |-> {}, email |-> {}],
   [address |-> {AddressRow(1, <<"A">>), AddressRow(2, <<"B">>)},
    citizenship |-> {CitizenshipRow(1, <<"U", "S">>), CitizenshipRow(1, <<"C", "A">>)},
    email |-> {EmailRow(2, <<"e">>)}]}
PersonsSources ==
  {[person |-> P, address |-> ch.address, citizenship |-> ch.citizenship, email |-> ch.email]
     : P \in SUBSET Ids, ch \in ChildTables}

\* dict(zip(COLS, row)) of a person_v row
PersonRowdict(p) ==
  [c \in SeqToSet(cols) |->
     CASE c = "person_id" -> PyI(p)
       [] c = "last_name" -> PyS(s_X)
       [] OTHER -> PyNone]

\* The rows of table order `fetched` that belong to person p, in fetch order.
RowsOf(fetched, p) == SelectSeq(fetched, LAMBDA row : row.person_id = p)
\* C_DATA[key] / E_DATA[key]: the values joined with ',' in fetch order.
RECURSIVE CommaJoin(_)
CommaJoin(vals) ==
  IF Len(vals) = 1 THEN vals[1]
  ELSE CommaJoin(SubSeq(vals, 1, Len(vals) - 1)) \o <<",">> \o vals[Len(vals)]

\* A_DATA.get(key, {})
A_DATA_get(fetched, key) ==
  IF RowsOf(fetched, key) = <<>> THEN <<"dict", <<>>>> ELSE <<"list", RowsOf(fetched, key)>>
\* C_DATA.get(key, None)
C_DATA_get(fetched, key) ==
  IF RowsOf(fetched, key) = <<>> THEN PyNone
  ELSE PyS(CommaJoin([i \in 1..Len(RowsOf(fetched, key)) |-> RowsOf(fetched, key)[i].country]))
\* E_DATA.get(key, None)
E_DATA_get(fetched, key) ==
  IF RowsOf(fetched, key) = <<>> THEN PyNone
  ELSE PyS(CommaJoin([i \in 1..Len(RowsOf(fetched, key)) |-> RowsOf(fetched, key)[i].Email]))

\* Keys of DATA: person ids and the three names the last loop of Retrieve_Source assigns.
PersonKey(p) == PyI(p)
NameKey(name) == <<"name", name>>
IsPersonKey(k) == k[1] = "int"

\* DATA after the person_v loop over the persons in fetch order `porder`:
\* DATA[key] = rowdict per person; DATA['addresses'], DATA['citizenships'] and
\* DATA['emails'] are assigned in every iteration and keep the last person's values.
PersonsDATA(porder, aorder, corder, eorder) ==
  IF porder = <<>> THEN <<>>
  ELSE LET last == porder[Len(porder)]
       IN [k \in {PersonKey(porder[i]) : i \in 1..Len(porder)}
                  \cup {NameKey("addresses"), NameKey("citizenships"), NameKey("emails")} |->
             CASE IsPersonKey(k) -> PersonRowdict(k[2])
               [] k = NameKey("addresses") -> A_DATA_get(aorder, last)
               [] k = NameKey("citizenships") -> C_DATA_get(corder, last)
               [] k = NameKey("emails") -> E_DATA_get(eorder, last)]
\* Insertion order of the keys of DATA.
PersonsKeyOrder(porder) ==
  IF porder = <<>> THEN <<>>
  ELSE <<PersonKey(porder[1]), NameKey("addresses"), NameKey("citizenships"), NameKey("emails")>>
       \o [i \in 1..(Len(porder) - 1) |-> PersonKey(porder[i + 1])]

\* The XSEDEPerson instance built from a person rowdict that has every key read.
PersonModel(nitem) ==
  [person_id |-> nitem["person_id"],
   last_name |-> PyS(PyStr(nitem["last_name"])),
   citizenships |-> PyS(PyStr(nitem["citizenships"])),
   emails |-> PyS(PyStr(nitem["emails"])),
   addressesJSON |-> nitem["addresses"]]
\* The keys the constructor call reads from nitem.
PersonKeysRead == {"person_id", "last_name", "citizenships", "emails", "addresses"}

\* ------------------------------------------ source URL and destination
\* A URL is the sequence of its lexical tokens; the token "//" stands for the two
\* characters the code slices off with [0:2] and [2:].
U_ok == <<"postgresql", ":", "//", "h", "/", "db">>
U_nopath == <<"postgresql", ":", "//", "h">>
U_empty == <<"postgresql", ":", "//">>
U_noslashes == <<"postgresql", ":", "h", "/", "db">>
U_http == <<"http", ":", "//", "h", "/", "db">>
U_ftp == <<"ftp", ":", "//", "h", "/", "db">>
U_file == <<"file", ":", "f">>
D_warehouse == <<"warehouse">>
D_file == <<"file", ":", "g">>
D_bogus == <<"bogus">>
\* The (source, destination) pairs a behaviour may be started with.
Configs ==
  {[src |-> U_ok, dest |-> D_warehouse], [src |-> U_nopath, dest |-> D_warehouse],
   [src |-> U_empty, dest |-> D_warehouse], [src |-> U_noslashes, dest |-> D_warehouse],
   [src |-> U_http, dest |-> D_warehouse], [src |-> U_ftp, dest |-> D_warehouse],
   [src |-> U_file, dest |-> D_file], [src |-> U_file, dest |-> D_warehouse],
   [src |-> U_ok, dest |-> D_bogus]}

\* str.find(c): the 0-based index of the first c, or -1.
Find(s, c) ==
  IF \E i \in 1..Len(s) : s[i] = c
  THEN (CHOOSE i \in 1..Len(s) : s[i] = c /\ \A j \in 1..(i - 1) : s[j] # c) - 1
  ELSE -1
\* s[0:n] and s[n:]
SliceTo(s, n) == SubSeq(s, 1, IF n < Len(s) THEN n ELSE Len(s))
SliceFrom(s, n) == SubSeq(s, n + 1, Len(s))
\* self.src['path'] = None
NoPath == <<"<None>">>
NetSchemes == {<<"http">>, <<"https">>, <<"postgresql">>}

\* self.src['scheme'] as the validation at startup sets it.
SrcScheme(a) ==
  IF Find(a.src, ":") > 0 THEN SliceTo(a.src, Find(a.src, ":")) ELSE a.src
\* self.src['path'] before the "//" is cut off.
SrcPath(a) ==
  IF Find(a.src, ":") > 0 THEN SliceFrom(a.src, Find(a.src, ":") + 1) ELSE NoPath
DestScheme(a) ==
  IF Find(a.dest, ":") > 0 THEN SliceTo(a.dest, Find(a.dest, ":")) ELSE a.dest

\* The verification of the arguments that the three scripts share: "run" when it
\* passes, "exit" on sys.exit(1), "raise" on an exception (None has no slice/len).
VerifyArguments(a) ==
  LET scheme == SrcScheme(a)
      path == SrcPath(a)
      cut == IF scheme \in NetSchemes THEN SliceFrom(path, 1) ELSE path
  IN IF scheme \notin (NetSchemes \cup {<<"file">>}) THEN "exit"
     ELSE IF path = NoPath THEN "raise"
     ELSE IF scheme \in NetSchemes /\ SliceTo(path, 1) # <<"//">> THEN "exit"
     ELSE IF Len(cut) < 1 THEN "exit"
     ELSE IF DestScheme(a) \notin {<<"file">>, <<"analyze">>, <<"warehouse">>} THEN "exit"
     ELSE IF scheme = <<"file">> /\ DestScheme(a) = <<"file">> THEN "exit"
     ELSE "run"
\* What happens between the start of the process and the creation of the run
\* tracker: the shared verification, then "Source must be postgresql" in Setup of
\* the fos router and at the top of run() of the persons router.
Startup(r, a) ==
  IF VerifyArguments(a) # "run" THEN VerifyArguments(a)
  ELSE IF r \in {"fos", "persons"} /\ SrcScheme(a) # <<"postgresql">> THEN "exit"
  ELSE "run"
\* The checks of Connect_Source(url) before psycopg2.connect: each failure is
\* logged as 'Retrieve URL is not valid' and ends the process with exit(1).
ConnectUrlValid(url) ==
  LET idx == Find(url, ":")
      obj == SliceFrom(url, idx + 1)
  IN /\ idx > 0
     /\ SliceTo(url, idx) = <<"postgresql">>
     /\ SliceTo(obj, 1) = <<"//">>
     /\ Find(SliceFrom(obj, 1), "/") > 0

\* ------------------------------------------------- the process, all routers
Sources(r) == IF r = "fos" THEN FosSources ELSE IF r = "users" THEN UsersSources ELSE PersonsSources

Event(op, id) == [op |-> op, id |-> id]
LogRec(kind, id) == [kind |-> kind, id |-> id]

\* The delete loop entered as soon as the snapshot holds a record, whatever the
\* create/update loop still has to visit.
PcAfterDeletesFirst(restTodo, restDel) ==
  IF restDel # {} THEN "delete" ELSE IF restTodo # {} THEN "apply" ELSE "report"
\* The loops of Store_Destination / Warehouse_Usermap are left when their work lists are empty.
\* A dict is iterated in insertion order, which is the order the store returned the
\* rows in; any order is possible, so the work lists are sets and each iteration
\* takes any remaining element (persons: a sequence, the key order matters there).
PcAfter(restTodo, restDel) ==
  IF restTodo # {} THEN "apply" ELSE IF restDel # {} THEN "delete" ELSE "report"
PcAfterSeq(restTodo, restDel) ==
  IF restTodo # <<>> THEN "apply" ELSE IF restDel # {} THEN "delete" ELSE "report"
\* return(True, '') once both loops are done.
RcAt(nextPc) == IF nextPc = "report" THEN "true" ELSE rc

\* An exception leaves run()/Run(): the fos main logs it and exits with rc=1,
\* the other two scripts die with a traceback.  FinishActivity is not reached.
Uncaught ==
  /\ pc' = "ended"
  /\ outcome' = "exception"
  /\ exitStatus' = 1
  /\ logged' = IF router = "fos" THEN Append(logged, LogRec("exception", PyNone)) ELSE logged

\* A process after router = Router(): nothing entered, nothing accessed.
Instances == 1..NumInstances
Free == 0
NewInstance == [at |-> "new", n |-> 0, rc |-> "unbound", status |-> "running", error |-> "none"]

Init ==
  /\ router \in Routers
  /\ args \in Configs
  /\ source \in Sources(router)
  /\ cols \in (IF router = "fos" THEN ColOrders ELSE IF router = "persons" THEN PersonColOrders ELSE {<<>>})
  /\ dest = <<>>
  /\ pc = "idle"
  /\ runNo = 0
  /\ cursorOpen = FALSE
  /\ INPUT = <<>>
  /\ todo = {}
  /\ cur = <<>>
  /\ curdigest = <<>>
  /\ delTodo = {}
  /\ STATS = ZeroStats
  /\ hist = <<>>
  /\ logged = <<>>
  /\ pa = NoTracker
  /\ rc = "unset"
  /\ outcome = "none"
  /\ exitStatus = 0
  /\ runInfo = [sameSrc |-> FALSE, prevOk |-> FALSE]
  /\ local = [person_id |-> "unbound", nextPk |-> 1, resource |-> "unbound"]
  /\ inst = [i \in Instances |-> NewInstance]
  /\ pidfile = Free
  /\ destLog = <<>>

\* The script is started as a new process, which holds no connection: counters are
\* zeroed and the run tracker is created.
\* Since the previous invocation the source store may have been edited.
StartProcess ==
  /\ pc \in {"idle", "ended"}
  /\ runNo < MaxRuns
  /\ runNo' = runNo + 1
  /\ source' \in (IF runNo = 0 THEN {source} ELSE Sources(router))
  /\ runInfo' = [sameSrc |-> (runNo > 0 /\ source' = source),
                 prevOk |-> (runNo > 0 /\ pa.finished = 1 /\ pa.rc = "true")]
  /\ STATS' = ZeroStats
  /\ hist' = <<>>
  /\ rc' = "unset"
  /\ \/ \* the arguments are accepted: run()/Run() creates the run tracker
        /\ Startup(router, args) = "run"
        /\ pa' = [started |-> 1, finished |-> 0, rc |-> "unset", summary |-> <<>>]
        /\ logged' = <<>>
        /\ outcome' = "running"
        /\ pc' = "connect"
        /\ UNCHANGED exitStatus
     \/ \* the arguments are rejected: the process ends before run()/Run()
        /\ Startup(router, args) # "run"
        /\ pa' = NoTracker
        /\ logged' = <<LogRec("config", PyNone)>>
        /\ outcome' = "configexit"
        /\ pc' = "ended"
        /\ exitStatus' = 1
  /\ INPUT' = <<>>
  /\ todo' = {}
  /\ cur' = <<>>
  /\ curdigest' = <<>>
  /\ delTodo' = {}
  /\ local' = [local EXCEPT !.person_id = "unbound", !.resource = "unbound"]
  /\ cursorOpen' = FALSE
  /\ UNCHANGED <<pidVars, router, args, cols, dest>>

\* Connect_Source: the checks of the URL, then psycopg2.connect and conn.cursor():
\* a cursor, or an exception.
Connect_Source ==
  /\ pc = "connect"
  /\ \/ /\ ConnectUrlValid(args.src)
        /\ cursorOpen' = TRUE
        /\ pc' = "retrieve"
        /\ UNCHANGED <<outcome, exitStatus, logged>>
     \/ /\ ConnectUrlValid(args.src)
        /\ Uncaught
        /\ UNCHANGED cursorOpen
     \/ \* 'Retrieve URL is not valid'
        /\ ~ConnectUrlValid(args.src)
        /\ ~(router = "users" /\ SrcScheme(args) # <<"postgresql">>)
        /\ logged' = Append(logged, LogRec("url", PyNone))
        /\ pc' = "ended"
        /\ outcome' = "exit"
        /\ exitStatus' = 1
        /\ UNCHANGED cursorOpen
     \/ \* users: Connect_Source is called for the scheme postgresql only; with
        \* another scheme CURSOR is unbound when Retrieve_Usermap(CURSOR) is called
        /\ router = "users" /\ SrcScheme(args) # <<"postgresql">>
        /\ Uncaught
        /\ UNCHANGED cursorOpen
  /\ UNCHANGED <<pidVars, router, args, runNo, source, cols, dest, INPUT, todo, cur, curdigest, delTodo,
                 STATS, hist, pa, rc, runInfo, local>>

\* A psycopg2.Error in cursor.execute: logged, then exit(1).
QueryFailed ==
  /\ logged' = Append(logged, LogRec("query", PyNone))
  /\ pc' = "ended"
  /\ outcome' = "exit"
  /\ exitStatus' = 1

\* Disconnect_Source (cursor.close(); a bare return in the fos router), the summary
\* line and pa.FinishActivity(rc, summary_msg); the script then ends with status 0.
Run_Finish ==
  /\ pc = "report"
  /\ cursorOpen' = (IF router = "fos" THEN cursorOpen ELSE FALSE)
  /\ pa' = [pa EXCEPT !.finished = @ + 1, !.rc = rc,
                      !.summary = <<STATS.Update, STATS.Delete, STATS.Skip>>]
  /\ pc' = "ended"
  /\ outcome' = "finished"
  /\ exitStatus' = 0
  /\ UNCHANGED <<pidVars, router, args, runNo, source, cols, dest, INPUT, todo, cur, curdigest, delTodo,
                 STATS, hist, logged, rc, runInfo, local>>

\* ------------------------------------------- fields of science: the run
FosRetrieve_Source ==
  /\ pc = "retrieve"
  /\ router = "fos"
  /\ \/ /\ QueryFailed
        /\ UNCHANGED <<INPUT, todo>>
     \/ /\ INPUT' = [key \in DOMAIN source |-> FosRowdict(source[key])]
        /\ todo' = DOMAIN source
        /\ pc' = "snapshot"
        /\ UNCHANGED <<logged, outcome, exitStatus>>
  /\ UNCHANGED <<pidVars, router, args, runNo, source, cols, dest, cursorOpen, cur, curdigest, delTodo,
                 STATS, hist, pa, rc, runInfo, local>>

\* A query that misses one of the stored records.
ObjectsButOne(d) ==
  IF DOMAIN d = {} THEN d ELSE DropKey(d, CHOOSE k \in DOMAIN d : TRUE)
\* FieldOfScience.objects.all(): every stored record, by field_of_science_id.
AllObjects(d) == [k \in DOMAIN d |-> d[k]]

\* The first loop of Store_Destination: self.cur and self.curdigest.
FosStore_Snapshot ==
  /\ pc = "snapshot"
  /\ router = "fos"
  /\ \/ /\ Uncaught
        /\ UNCHANGED <<cur, curdigest, delTodo, rc>>
     \/ /\ cur' = AllObjects(dest)
        /\ curdigest' = [id \in DOMAIN cur' |-> Digest(FosXdict(cur'[id]))]
        /\ delTodo' = DOMAIN cur'
        /\ pc' = PcAfter(todo, delTodo')
        /\ rc' = RcAt(pc')
        /\ UNCHANGED <<logged, outcome, exitStatus>>
  /\ UNCHANGED <<pidVars, router, args, runNo, source, cols, dest, cursorOpen, INPUT, todo,
                 STATS, hist, pa, runInfo, local>>

\* One iteration of "for new_id in new_items".
FosStore_Apply ==
  /\ pc = "apply"
  /\ router = "fos"
  /\ \E new_id \in todo :
     LET nitem == INPUT[new_id]
         rest == todo \ {new_id}
     IN /\ todo' = rest
        /\ IF FosUnchanged(new_id)
           THEN /\ STATS' = Bump(STATS, "Skip")
                /\ hist' = Append(hist, Event("skip", new_id))
                /\ pc' = PcAfter(rest, delTodo)
                /\ rc' = RcAt(pc')
                /\ UNCHANGED <<dest, logged>>
           ELSE \/ /\ dest' = PutKey(dest, DictGet(nitem, F_ID)[2], FosDefaults(nitem))
                   /\ hist' = Append(hist, Event(IF DictGet(nitem, F_ID)[2] \in DOMAIN dest
                                                 THEN "update" ELSE "create", new_id))
                   /\ STATS' = Bump(STATS, "Update")
                   /\ pc' = PcAfter(rest, delTodo)
                   /\ rc' = RcAt(pc')
                   /\ UNCHANGED logged
                \/ /\ logged' = Append(logged, LogRec("saving", DictGet(nitem, F_ID)[2]))
                   /\ hist' = Append(hist, Event("savefail", new_id))
                   /\ rc' = "false"
                   /\ pc' = "report"
                   /\ UNCHANGED <<dest, STATS>>
  /\ UNCHANGED <<pidVars, router, args, runNo, source, cols, cursorOpen, INPUT, cur, curdigest, delTodo,
                 pa, outcome, exitStatus, runInfo, local>>

\* One iteration of "for cur_id in self.cur".
FosStore_Delete ==
  /\ pc = "delete"
  /\ router = "fos"
  /\ \E cur_id \in delTodo :
        /\ delTodo' = delTodo \ {cur_id}
        /\ pc' = PcAfter({}, delTodo')
        /\ rc' = RcAt(pc')
        /\ IF cur_id \notin DOMAIN INPUT
           THEN \/ /\ dest' = DropKey(dest, cur_id)
                   /\ STATS' = Bump(STATS, "Delete")
                   /\ hist' = Append(hist, Event("delete", cur_id))
                   /\ UNCHANGED logged
                \/ /\ logged' = Append(logged, LogRec("deleting", cur_id))
                   /\ hist' = Append(hist, Event("delfail", cur_id))
                   /\ UNCHANGED <<dest, STATS>>
           ELSE UNCHANGED <<dest, STATS, hist, logged>>
  /\ UNCHANGED <<pidVars, router, args, runNo, source, cols, cursorOpen, INPUT, todo, cur, curdigest,
                 pa, outcome, exitStatus, runInfo, local>>

\* --------------------------------------------------- users: the run
UsersRetrieve_Usermap ==
  /\ pc = "retrieve"
  /\ router = "users"
  /\ \/ /\ QueryFailed
        /\ UNCHANGED <<INPUT, todo>>
     \/ \* rows of equal key overwrite each other: the row fetched last stays
        /\ INPUT' \in {f \in [{UsermapKey(row) : row \in source} -> source] :
                         \A k \in DOMAIN f : UsermapKey(f[k]) = k}
        /\ todo' = {UsermapKey(row) : row \in source}
        /\ pc' = "snapshot"
        /\ UNCHANGED <<logged, outcome, exitStatus>>
  /\ UNCHANGED <<pidVars, router, args, runNo, source, cols, dest, cursorOpen, cur, curdigest, delTodo,
                 STATS, hist, pa, rc, runInfo, local>>

\* The first loop of Warehouse_Usermap: of several items with one (resource_name,
\* local_username) the first stays in self.cur.
UsersWarehouse_Snapshot ==
  /\ pc = "snapshot"
  /\ router = "users"
  /\ \/ /\ Uncaught
        /\ UNCHANGED <<cur, delTodo, rc>>
     \/ LET entries == {<<PyStr(dest[k].resource_name), PyStr(dest[k].local_username)>> : k \in DOMAIN dest}
        IN /\ cur' \in {f \in [entries -> DOMAIN dest] :
                          \A e \in entries : <<PyStr(dest[f[e]].resource_name),
                                               PyStr(dest[f[e]].local_username)>> = e}
           /\ delTodo' = entries
           /\ pc' = PcAfter(todo, delTodo')
           /\ rc' = RcAt(pc')
           /\ UNCHANGED <<logged, outcome, exitStatus>>
  /\ UNCHANGED <<pidVars, router, args, runNo, source, cols, dest, cursorOpen, INPUT, todo, curdigest,
                 STATS, hist, pa, runInfo, local>>

\* One iteration of "for new_id in new_items".  The except clause formats
\* person_id and e.message: person_id is unbound until a save succeeded and the
\* exception has no attribute message, so the clause raises instead of returning.
UsersWarehouse_Apply ==
  /\ pc = "apply"
  /\ router = "users"
  /\ \E new_id \in todo :
     LET nitem == INPUT[new_id]
         rest == todo \ {new_id}
         ident == <<PyStr(nitem.username), PyStr(nitem.resource_name)>>
     IN /\ todo' = rest
        /\ IF UsermapInCur(nitem)
           THEN /\ hist' = Append(hist, Event("skip", ident))
                /\ pc' = PcAfter(rest, delTodo)
                /\ rc' = RcAt(pc')
                /\ UNCHANGED <<dest, STATS, local, logged, outcome, exitStatus>>
           ELSE \/ /\ dest' = PutKey(dest, local.nextPk, UsermapModel(nitem))
                   /\ local' = [local EXCEPT !.person_id = nitem.person_id, !.nextPk = @ + 1]
                   /\ hist' = Append(hist, Event("create", ident))
                   /\ STATS' = Bump(STATS, "Update")
                   /\ pc' = PcAfter(rest, delTodo)
                   /\ rc' = RcAt(pc')
                   /\ UNCHANGED <<logged, outcome, exitStatus>>
                \/ /\ hist' = Append(hist, Event("savefail", ident))
                   /\ Uncaught
                   /\ UNCHANGED <<dest, STATS, local, rc>>
  /\ UNCHANGED <<pidVars, router, args, runNo, source, cols, cursorOpen, INPUT, cur, curdigest, delTodo,
                 pa, runInfo>>

\* One iteration of the nested delete loop.  After a delete the counter
\* self.stats['Usermap.Delete'] is incremented, a key run() never created
\* (it creates 'UserMap.Delete'): KeyError.  A failed delete reaches the
\* except clause, which raises on e.message.
UsersWarehouse_Delete ==
  /\ pc = "delete"
  /\ router = "users"
  /\ \E entry \in delTodo :
     LET item == dest[cur[entry]]
         ident == <<PyStr(item.local_username), PyStr(item.resource_name)>>
     IN \* the inner loop finishes a resource before the outer loop takes the next
        /\ (\E e \in delTodo : e[1] = local.resource) => entry[1] = local.resource
        /\ local' = [local EXCEPT !.resource = entry[1]]
        /\ delTodo' = delTodo \ {entry}
        /\ IF Compstring(item) \notin DOMAIN INPUT
           THEN \/ /\ dest' = DropKey(dest, cur[entry])
                   /\ hist' = Append(hist, Event("delete", ident))
                   /\ Uncaught
                   /\ UNCHANGED rc
                \/ /\ hist' = Append(hist, Event("delfail", ident))
                   /\ Uncaught
                   /\ UNCHANGED <<dest, rc>>
           ELSE /\ pc' = PcAfter({}, delTodo')
                /\ rc' = RcAt(pc')
                /\ UNCHANGED <<dest, hist, logged, outcome, exitStatus>>
  /\ UNCHANGED <<pidVars, router, args, runNo, source, cols, cursorOpen, INPUT, todo, cur, curdigest,
                 STATS, pa, runInfo>>

\* ------------------------------------------------- persons: the run
\* Four queries (address_v, citizenship_v, email_v, person_v), each of which may fail.
PersonsRetrieve_Source ==
  /\ pc = "retrieve"
  /\ router = "persons"
  /\ \/ /\ QueryFailed
        /\ UNCHANGED <<INPUT, todo>>
     \/ \E porder \in Perms(source.person), aorder \in Perms(source.address),
           corder \in Perms(source.citizenship), eorder \in Perms(source.email) :
          /\ INPUT' = PersonsDATA(porder, aorder, corder, eorder)
          /\ todo' = PersonsKeyOrder(porder)
          /\ pc' = "snapshot"
          /\ UNCHANGED <<logged, outcome, exitStatus>>
  /\ UNCHANGED <<pidVars, router, args, runNo, source, cols, dest, cursorOpen, cur, curdigest, delTodo,
                 STATS, hist, pa, rc, runInfo, local>>

\* The first loop of Store_Destination.
PersonsStore_Snapshot ==
  /\ pc = "snapshot"
  /\ router = "persons"
  /\ \/ /\ Uncaught
        /\ UNCHANGED <<cur, delTodo, rc>>
     \/ /\ cur' = dest
        /\ delTodo' = DOMAIN dest
        /\ pc' = PcAfterSeq(todo, delTodo')
        /\ rc' = RcAt(pc')
        /\ UNCHANGED <<logged, outcome, exitStatus>>
  /\ UNCHANGED <<pidVars, router, args, runNo, source, cols, dest, cursorOpen, INPUT, todo, curdigest,
                 STATS, hist, pa, runInfo, local>>

\* One iteration of "for new_id in new_items".  For a person key the constructor
\* reads keys of the person row (KeyError when the view lacks one); for the keys
\* 'addresses', 'citizenships', 'emails' nitem is a list, a dict, a str or None and
\* nitem['person_id'] raises.  The except clause raises as in the users router.
PersonsStore_Apply ==
  /\ pc = "apply"
  /\ router = "persons"
  /\ LET new_id == Head(todo)
         nitem == INPUT[new_id]
     IN /\ todo' = Tail(todo)
        /\ IF IsPersonKey(new_id) /\ PersonKeysRead \subseteq DOMAIN nitem
           THEN \/ /\ dest' = PutKey(dest, new_id[2], PersonModel(nitem))
                   /\ local' = [local EXCEPT !.person_id = nitem["person_id"]]
                   /\ hist' = Append(hist, Event(IF new_id[2] \in DOMAIN dest THEN "update" ELSE "create",
                                                 new_id[2]))
                   /\ STATS' = Bump(STATS, "Update")
                   /\ pc' = PcAfterSeq(Tail(todo), delTodo)
                   /\ rc' = RcAt(pc')
                   /\ UNCHANGED <<logged, outcome, exitStatus>>
                \/ /\ hist' = Append(hist, Event("savefail", new_id[2]))
                   /\ Uncaught
                   /\ UNCHANGED <<dest, STATS, local, rc>>
           ELSE /\ Uncaught
                /\ UNCHANGED <<dest, STATS, local, rc, hist>>
  /\ UNCHANGED <<pidVars, router, args, runNo, source, cols, cursorOpen, INPUT, cur, curdigest, delTodo,
                 pa, runInfo>>

\* The first iteration of "for item in self.cur": self.cur[item]['person_id']
\* subscripts a model instance and raises TypeError.
PersonsStore_Delete ==
  /\ pc = "delete"
  /\ router = "persons"
  /\ Uncaught
  /\ UNCHANGED <<pidVars, router, args, runNo, source, cols, dest, cursorOpen, INPUT, todo, cur, curdigest,
                 delTodo, STATS, hist, pa, rc, runInfo, local>>

Next ==
  \/ StartProcess
  \/ Connect_Source
  \/ FosRetrieve_Source
  \/ FosStore_Snapshot
  \/ FosStore_Apply
  \/ FosStore_Delete
  \/ UsersRetrieve_Usermap
  \/ UsersWarehouse_Snapshot
  \/ UsersWarehouse_Apply
  \/ UsersWarehouse_Delete
  \/ PersonsRetrieve_Source
  \/ PersonsStore_Snapshot
  \/ PersonsStore_Apply
  \/ PersonsStore_Delete
  \/ Run_Finish

Spec == Init /\ [][Next]_vars

\* ------------------------------------------------- fos __main__: processes side by side
\* Several fos processes are started with the same configuration, so with the same
\* pidfile_path. Each goes through __main__; Setup and Run are seen from outside:
\* how they end and which accesses to the destination Run makes.

\* PidFile.__enter__ takes the file unless a running process holds it.
PidFile_NeverLocked(holder) == FALSE
PidFile_Locked(holder) == holder # Free

\* Leaving the with block, in whatever way, releases the file of the holder.
PidFile_KeptOnSystemExit(holder, i, how) == IF holder = i /\ how # "SystemExit" THEN Free ELSE holder
PidFile_Exit(holder, i, how) == IF holder = i THEN Free ELSE holder

\* with PidFile(router.pidfile_path): the file is held by another process and
\* PidFileError leaves the script (status 1), or the process takes the file.
Main_PidFile(i) ==
  /\ inst[i].at = "new"
  /\ \/ /\ PidFile_Locked(pidfile)
        /\ inst' = [inst EXCEPT ![i].at = "exited", ![i].status = "1", ![i].error = "PidFileError"]
        /\ UNCHANGED pidfile
     \/ /\ ~PidFile_Locked(pidfile)
        /\ inst' = [inst EXCEPT ![i].at = "setup"]
        /\ pidfile' = i
  /\ UNCHANGED destLog

\* router.Setup(): returns, raises an Exception (caught, rc = 1), or sys.exit(1).
Main_Setup(i) ==
  /\ inst[i].at = "setup"
  /\ \/ /\ inst' = [inst EXCEPT ![i].at = "run"]
        /\ UNCHANGED pidfile
     \/ /\ inst' = [inst EXCEPT ![i].at = "left", ![i].rc = "1", ![i].error = "Exception"]
        /\ pidfile' = PidFile_Exit(pidfile, i, "Exception")
     \/ /\ inst' = [inst EXCEPT ![i].at = "exited", ![i].status = "1", ![i].error = "SystemExit"]
        /\ pidfile' = PidFile_Exit(pidfile, i, "SystemExit")
  /\ UNCHANGED destLog

\* One access of Run to the destination: the snapshot read, a write, a delete.
Main_RunAccess(i) ==
  /\ inst[i].at = "run"
  /\ inst[i].n < MaxAccess
  /\ inst' = [inst EXCEPT ![i].n = @ + 1]
  /\ destLog' = Append(destLog, i)
  /\ UNCHANGED pidfile

\* rc = router.Run(): Run returns (without a value), raises an Exception
\* (caught, rc = 1), or ends in sys.exit (Connect_Source, exit_signal).
Main_RunEnd(i) ==
  /\ inst[i].at = "run"
  /\ \/ /\ inst' = [inst EXCEPT ![i].at = "left", ![i].rc = "None"]
        /\ pidfile' = PidFile_Exit(pidfile, i, "return")
     \/ /\ inst' = [inst EXCEPT ![i].at = "left", ![i].rc = "1", ![i].error = "Exception"]
        /\ pidfile' = PidFile_Exit(pidfile, i, "Exception")
     \/ /\ inst' = [inst EXCEPT ![i].at = "exited", ![i].status = "1", ![i].error = "SystemExit"]
        /\ pidfile' = PidFile_Exit(pidfile, i, "SystemExit")
  /\ UNCHANGED destLog

\* router.exit(rc), after the with block.
Main_exit(i) ==
  /\ inst[i].at = "left"
  /\ inst' = [inst EXCEPT ![i].at = "exited", ![i].status = IF inst[i].rc = "1" THEN "1" ELSE "0"]
  /\ UNCHANGED <<pidfile, destLog>>

BaseVars == <<router, args, pc, runNo, source, cols, dest, cursorOpen, INPUT, todo, cur, curdigest,
              delTodo, STATS, hist, logged, pa, rc, outcome, exitStatus, runInfo, local>>

InitPid ==
  /\ Init
  /\ router = "fos"
  /\ args = [src |-> U_ok, dest |-> D_warehouse]
  /\ source = CHOOSE s \in FosSources : TRUE
  /\ cols = CHOOSE c \in ColOrders : TRUE

NextPid ==
  /\ \E i \in Instances :
        \/ Main_PidFile(i)
        \/ Main_Setup(i)
        \/ Main_RunAccess(i)
        \/ Main_RunEnd(i)
        \/ Main_exit(i)
  /\ UNCHANGED BaseVars

SpecPid == InitPid /\ [][NextPid]_vars


\* ------------------------------------------------- notions of the claims
\* The invocation ended through the report: FinishActivity was reached.
Reported == pc = "ended" /\ outcome = "finished"
\* ... and the reconciler returned (True, '').
ReportedSuccess == Reported /\ pa.rc = "true"

\* Identifiers of the source snapshot and of the destination.
SrcIds ==
  CASE router = "fos" -> DOMAIN source
    [] router = "users" -> {<<PyStr(row.username), PyStr(row.resource_name)>> : row \in source}
    [] router = "persons" -> source.person
DestIdOf(k) ==
  IF router = "users" THEN <<PyStr(dest[k].local_username), PyStr(dest[k].resource_name)>> ELSE k
DestIds == {DestIdOf(k) : k \in DOMAIN dest}
\* Identifiers of the destination snapshot taken at the start of the run.
SnapshotIds ==
  IF router = "users" THEN {<<e[2], e[1]>> : e \in DOMAIN cur} ELSE DOMAIN cur

\* The x-th event of hist is a write (issued, whether or not it succeeded).
IsWrite(e) == e.op \in {"create", "update", "savefail"}
HistIds(ops) == {hist[i].id : i \in {j \in 1..Len(hist) : hist[j].op \in ops}}

\* C1: after a run the reconciler reports as successful, the identifiers of the
\* destination are exactly the identifiers of the source (fos and users routers).
C1_DestinationEqualsSource ==
  (ReportedSuccess /\ router \in {"fos", "users"}) => DestIds = SrcIds

\* Content of a destination record with every spelling of 'none' read as None.
FosStoredContent(item) == [f \in FosFieldSet |-> IF IsNoneString(item[f]) THEN PyNone ELSE item[f]]
\* The destination record of a source row matches the row: it holds what the
\* router stores for that row.
ContentMatches(id) ==
  CASE router = "fos" ->
         FosStoredContent(dest[id]) = FosStoredContent(FosDefaults(FosRowdict(source[id])))
    [] router = "users" ->
         \E row \in source :
           /\ <<PyStr(row.username), PyStr(row.resource_name)>> = DestIdOf(id)
           /\ dest[id] = UsermapModel(row)

\* C2: after a successful run every source identifier that the destination holds
\* has exactly one destination record, and that record's content matches the
\* source record: no record is left stale and none is duplicated.  (That every
\* source identifier is held at all is C1.)
C2_OneMatchingRecordPerSourceId ==
  (ReportedSuccess /\ router \in {"fos", "users"}) =>
     \A id \in SrcIds \cap DestIds :
        /\ Cardinality({k \in DOMAIN dest : DestIdOf(k) = id}) = 1
        /\ \A k \in DOMAIN dest : DestIdOf(k) = id => ContentMatches(k)


\* The step visits source record id in the create/update loop.
Visits(id) ==
  /\ pc = "apply"
  /\ CASE router = "fos" -> id \in todo /\ todo' = todo \ {id}
       [] router = "persons" -> todo # <<>> /\ Head(todo) = PersonKey(id) /\ todo' = Tail(todo)
       [] OTHER -> FALSE
\* The canonicalized content of source record id is identical to the content of the
\* destination record of the snapshot with the same identifier.
SameContent(id) ==
  /\ id \in DOMAIN cur
  /\ CASE router = "fos" -> StrDict(SortedItems(INPUT[id])) = StrDict(SortedItems(FosXdict(cur[id])))
       [] router = "persons" ->
            /\ PersonKeysRead \subseteq DOMAIN INPUT[PersonKey(id)]
            /\ cur[id] = PersonModel(INPUT[PersonKey(id)])
       [] OTHER -> FALSE

\* C3: a source record whose canonicalized content is identical to the destination
\* record of the same identifier is visited without a write; the skip counter grows
\* by one and the update counter does not grow (fos and persons routers).
C3_UnchangedRecordIsSkipped ==
  [][\A id \in Ids :
       (router \in {"fos", "persons"} /\ Visits(id) /\ SameContent(id)) =>
          /\ dest' = dest
          /\ ~(Len(hist') > Len(hist) /\ IsWrite(hist'[Len(hist')]))
          /\ STATS'.Skip = STATS.Skip + 1
          /\ STATS'.Update = STATS.Update]_vars

\* C4: when the previous invocation reported success and the source did not change
\* since, the invocation reports zero updates and zero deletes.
C4_SecondRunWritesNothing ==
  (Reported /\ runNo >= 2 /\ runInfo.prevOk /\ runInfo.sameSrc) =>
     (pa.summary[1] = 0 /\ pa.summary[2] = 0)


\* The class of source record id against the destination snapshot of this run.
FosClass(id) ==
  IF id \notin DOMAIN cur THEN "CREATE"
  ELSE IF StrDict(SortedItems(INPUT[id])) # StrDict(SortedItems(FosXdict(cur[id]))) THEN "UPDATE"
  ELSE "SKIP"
\* The events of the create/update loop.
ApplyEvents == {i \in 1..Len(hist) : hist[i].op \in {"skip", "create", "update", "savefail"}}

\* C5: in the fos router every visited source record falls in one class by the
\* snapshot taken at the start of the run: not in the snapshot, a create is issued;
\* in the snapshot with a different digest, an update is issued; in the snapshot
\* with the same digest, nothing is written.  Every visited record has one event.
C5_ClassificationDecidesWrite ==
  (router = "fos" /\ pc \in {"apply", "delete", "report", "ended"} /\ outcome \in {"running", "finished"}) =>
     /\ {hist[i].id : i \in ApplyEvents} = (DOMAIN INPUT) \ todo
     /\ \A i, j \in ApplyEvents : hist[i].id = hist[j].id => i = j
     /\ \A i \in ApplyEvents :
          LET class == FosClass(hist[i].id)
          IN CASE class = "CREATE" -> hist[i].op \in {"create", "savefail"}
               [] class = "UPDATE" -> hist[i].op \in {"update", "savefail"}
               [] class = "SKIP" -> hist[i].op = "skip"

\* C5 witness: one run of the fos router has updated one record and skipped another.
C5_Witness ==
  /\ router = "fos"
  /\ pc = "ended"
  /\ \E i, j \in ApplyEvents : hist[i].op = "update" /\ hist[j].op = "skip"

\* The claim's normalization: None, "", and 'none' in any case are one value.
ClaimNorm(v) == IF v = PyNone \/ (IsStr(v) /\ (v[2] = s_empty \/ Lower(v[2]) = s_none)) THEN PyNone ELSE v
\* Source row and stored record are identical up to the spelling of "no value".
SameUpToNone(row, item) == \A f \in FosFieldSet : ClaimNorm(row[f]) = ClaimNorm(item[f])

\* C6: in the fos router a source record and a destination record that differ only
\* in how a field spells "no value" (None, "", 'none', 'NONE') have the same digest,
\* so the record is skipped.
C6_NormalizationLaw ==
  (router = "fos" /\ pc \in {"apply", "delete", "report"}) =>
     \A id \in (DOMAIN INPUT) \cap (DOMAIN cur) :
        SameUpToNone(source[id], cur[id]) => FosUnchanged(id)

\* Every order of insertion of the fields of a record.
FieldOrders == Perms(1..Len(ModelFieldOrder))
\* The items of dict d inserted in the order p.
Reordered(d, p) == [i \in 1..Len(d) |-> d[p[i]]]

\* C7: the canonical string and the digest of a record do not depend on the order
\* in which its fields were inserted, for the source rows and the stored records.
\* (checked when the loops of Store_Destination start: INPUT, cur and curdigest do
\* not change afterwards)
C7_DigestOrderIndependent ==
  (router = "fos" /\ pc \in {"apply", "delete"} /\ hist = <<>>) =>
     /\ \A id \in DOMAIN INPUT :
          LET canonical == StrDict(SortedItems(INPUT[id]))
              digest == Digest(INPUT[id])
          IN \A p \in FieldOrders :
               /\ StrDict(SortedItems(Reordered(INPUT[id], p))) = canonical
               /\ Digest(Reordered(INPUT[id], p)) = digest
     /\ \A id \in DOMAIN cur : \A p \in FieldOrders :
          Digest(Reordered(FosXdict(cur[id]), p)) = curdigest[id]

\* C7 witness: a source row whose columns arrive in an order that is neither sorted
\* nor the order of the stored record was found unchanged and skipped.
C7_Witness ==
  /\ router = "fos"
  /\ pc = "ended"
  /\ cols # ModelFieldOrder
  /\ \E id \in DOMAIN INPUT : INPUT[id] # SortedItems(INPUT[id])
  /\ \E i \in ApplyEvents : hist[i].op = "skip"


\* The class of a key of new_items against the destination snapshot (users router).
UsersClass(key) ==
  LET row == INPUT[key]
      id == <<PyStr(row.username), PyStr(row.resource_name)>>
  IN IF id \notin SnapshotIds THEN "CREATE"
     ELSE IF \E e \in DOMAIN cur : <<e[2], e[1]>> = id /\ cur[e] \in DOMAIN dest
                                   /\ dest[cur[e]] # UsermapModel(row) THEN "UPDATE"
     ELSE "SKIP"
ClassOf(key) == IF router = "fos" THEN FosClass(key) ELSE UsersClass(key)
\* The run had no failing write: no save and no delete raised.
NoWriteFailure == \A i \in 1..Len(hist) : hist[i].op \notin {"savefail", "delfail"}

\* C8: a run that completes without a write failure reports updated = number of
\* source records classified CREATE or UPDATE, skipped = number classified SKIP, and
\* deleted = number of snapshot identifiers absent from the source (fos and users).
C8_ReportedCounters ==
  (router \in {"fos", "users"} /\ Reported /\ NoWriteFailure) =>
     pa.summary = <<Cardinality({k \in DOMAIN INPUT : ClassOf(k) \in {"CREATE", "UPDATE"}}),
                    Cardinality(SnapshotIds \ SrcIds),
                    Cardinality({k \in DOMAIN INPUT : ClassOf(k) = "SKIP"})>>

\* C9: when the create/update of a source record fails, the failure is logged with
\* that record's identifier, nothing is written or deleted after it, the records
\* written before it are still in the destination, and the run tracker is finished
\* with success false.
C9_WriteFailureAbortsAndReports ==
  \A i \in 1..Len(hist) :
     hist[i].op = "savefail" =>
        /\ i = Len(hist)
        /\ \E n \in 1..Len(logged) : logged[n] = LogRec("saving", hist[i].id)
        /\ \A j \in 1..(i - 1) : hist[j].op \in {"create", "update"} => hist[j].id \in DestIds
        /\ pc = "ended" => (pa.finished = 1 /\ pa.rc = "false")

\* A step of the run failed: a connect, a query, the snapshot, a write, or any
\* other exception.
StepFailed == outcome \in {"exception", "exit"} \/ ~NoWriteFailure

\* C10: every invocation that started the run tracker calls FinishActivity exactly
\* once before it ends, with success false when a step failed.
C10_FinishActivityExactlyOnce ==
  (pc = "ended" /\ pa.started = 1) =>
     /\ pa.finished = 1
     /\ StepFailed => pa.rc = "false"


\* No source record of this run is waiting to be visited by the create/update loop.
TodoEmpty == IF router = "persons" THEN todo = <<>> ELSE todo = {}
DeleteOps == {"delete", "delfail"}

\* C11: within a run the delete loop is entered only when the create/update loop
\* has visited every source record, and no create, update or skip follows a delete.
C11_WritesBeforeDeletes ==
  /\ pc = "delete" => TodoEmpty
  /\ \A i, j \in 1..Len(hist) :
        (i < j /\ hist[i].op \in DeleteOps) => hist[j].op \in DeleteOps

\* C11 witness: a run wrote a record and then deleted another.
C11_Witness ==
  \E i, j \in 1..Len(hist) :
     i < j /\ hist[i].op \in {"create", "update"} /\ hist[j].op = "delete"


\* The value is the comma-joined members of S in some fetch order (None when S is empty).
IsJoinOf(v, S) ==
  IF S = {} THEN v = PyNone ELSE v \in {PyS(CommaJoin(o)) : o \in Perms(S)}
\* The value is the list of the rows of R (an empty list or dict when R is empty).
IsListOf(v, R) ==
  /\ v[1] \in {"list", "dict"}
  /\ SeqToSet(v[2]) = R
  /\ Len(v[2]) = Cardinality(R)

\* C12: the mapping returned by the persons Retrieve_Source has one key per person
\* and no other key, and the record of person p carries the address rows of p, the
\* joined countries of p and the joined emails of p.
C12_FanInKeyedByPerson ==
  (router = "persons" /\ pc \in {"snapshot", "apply", "delete", "report"}) =>
     /\ \A k \in DOMAIN INPUT : IsPersonKey(k)
     /\ \A p \in source.person :
          /\ PersonKey(p) \in DOMAIN INPUT
          /\ LET rec == INPUT[PersonKey(p)]
             IN /\ PersonKeysRead \subseteq DOMAIN rec
                /\ IsListOf(rec["addresses"], {r \in source.address : r.person_id = p})
                /\ IsJoinOf(rec["citizenships"],
                            {r.country : r \in {x \in source.citizenship : x.person_id = p}})
                /\ IsJoinOf(rec["emails"],
                            {r.Email : r \in {x \in source.email : x.person_id = p}})


\* C13: in the users router the existence test of the create loop and the absence
\* test of the delete loop both decide by the identifier (username, resource_name):
\* a source record is found in the snapshot exactly when the snapshot holds its
\* identifier, and a snapshot record is found in the source exactly when the source
\* holds its identifier.
C13_KeyDerivedTheSameWay ==
  (router = "users" /\ pc \in {"apply", "delete", "report"}) =>
     /\ \A k \in DOMAIN INPUT :
          UsermapInCur(INPUT[k]) <=>
             <<PyStr(INPUT[k].username), PyStr(INPUT[k].resource_name)>> \in SnapshotIds
     /\ \A e \in DOMAIN cur :
          (e[2] \o e[1] \in DOMAIN INPUT) <=> <<e[2], e[1]>> \in SrcIds


\* The invocation ended on a source error: psycopg2.connect raised (no cursor was
\* ever returned) or a query raised psycopg2.Error (exit(1)).
SourceError ==
  /\ pc = "ended"
  /\ ConnectUrlValid(args.src)
  /\ outcome = "exit" \/ (outcome = "exception" /\ ~cursorOpen)

\* C14: an invocation that ends on a source connectivity or query error has issued
\* no create, update or delete, ends with a non-zero status, and has reported the
\* failure: the run tracker is finished with success false.
C14_SourceErrorIsFatal ==
  SourceError =>
     /\ hist = <<>>
     /\ exitStatus # 0
     /\ pa.finished = 1 /\ pa.rc = "false"

\* What holds of C14 without the report: nothing is written and the status is non-zero.
C14_SourceErrorWritesNothing ==
  SourceError => (hist = <<>> /\ exitStatus # 0 /\ rc = "unset")


\* C15: a failed write, be it a create/update or a delete, is the last thing the
\* reconciler does in the run, the reconciler does not return success, and the run
\* tracker is not finished with success true.
C15_WriteErrorAbortsRun ==
  \A i \in 1..Len(hist) :
     hist[i].op \in {"savefail", "delfail"} =>
        /\ i = Len(hist)
        /\ rc # "true"
        /\ ~(pa.finished >= 1 /\ pa.rc = "true")


DbName(url) == IF Find(url, "/") >= 0 THEN SliceFrom(url, Find(url, "/") + 1) ELSE <<>>
\* The configuration errors: a source scheme the routers cannot read from (they
\* read from postgresql only), a source URL without database name, file to file.
ConfigError(a) ==
  \/ SrcScheme(a) # <<"postgresql">>
  \/ DbName(a.src) = <<>>
  \/ (SrcScheme(a) = <<"file">> /\ DestScheme(a) = <<"file">>)

\* C17: a process started with a configuration error ends at startup with a
\* non-zero status: the run tracker is never started, the source is never
\* contacted and nothing is written.
C17_ConfigErrorFatalAtStartup ==
  (ConfigError(args) /\ runNo > 0) =>
     /\ pc = "ended" /\ outcome = "configexit"
     /\ exitStatus # 0
     /\ pa.started = 0
     /\ ~cursorOpen
     /\ hist = <<>>


\* C18: in the fos router, when the first source record is about to be classified
\* (or, without source records, the first stored record about to be looked at), the
\* source mapping holds every source row and the snapshot every stored record; from
\* then on to the end of the loops neither the mapping nor the snapshot changes.
C18_ReadsBeforeClassification ==
  [][(router = "fos" /\ pc \in {"apply", "delete"}) =>
        /\ INPUT' = INPUT /\ cur' = cur /\ curdigest' = curdigest
        /\ hist = <<>> =>
             /\ DOMAIN INPUT = DOMAIN source
             /\ cur = dest
             /\ DOMAIN curdigest = DOMAIN cur]_vars

\* C18 witness: a record is waiting to be classified after a write of the same run
\* changed the destination, so that snapshot and destination differ.
C18_Witness ==
  /\ router = "fos"
  /\ pc = "apply"
  /\ hist # <<>>
  /\ DOMAIN cur # {}
  /\ cur # dest


\* accesses to the destination made by process i
AccessesOf(i) == {k \in 1..Len(destLog) : destLog[k] = i}
InsideWith(i) == inst[i].at \in {"setup", "run"}

DeleteEvents == {i \in 1..Len(hist) : hist[i].op = "delete"}

\* C20: a users run that has deleted a record ends with the summary and
\* FinishActivity, has by then removed every stored record whose (username,
\* resource_name) the source does not have, and reports as many deletes as it made.
C20_DeleteLoopRemovesAll ==
  (router = "users" /\ pc = "ended" /\ DeleteEvents # {}) =>
     /\ Reported
     /\ pa.finished = 1
     /\ pa.summary[2] = Cardinality(DeleteEvents)
     /\ DestIds \subseteq SrcIds


\* (username, resource_name) of a source row, as strings
UsermapPair(row) == <<PyStr(row.username), PyStr(row.resource_name)>>

\* C21: the key of the users router is injective over (username, resource_name):
\* two source rows of different pairs have different keys, so the source mapping
\* holds one entry per source pair, and no stored record whose pair the source does
\* not have finds its key in the source mapping.
C21_CompositeKeyInjective ==
  (router = "users" /\ pc \in {"snapshot", "apply", "delete", "report"}) =>
     /\ \A x, y \in source : UsermapKey(x) = UsermapKey(y) => UsermapPair(x) = UsermapPair(y)
     /\ Cardinality(DOMAIN INPUT) = Cardinality(SrcIds)
     /\ \A e \in DOMAIN cur : <<e[2], e[1]>> \notin SrcIds => (e[2] \o e[1]) \notin DOMAIN INPUT


\* C22: in a fos run, a stored record that is what update_or_create writes for the
\* source record of the same id (the record was written from it and the source
\* row has not changed since) has the digest of the source record, that is, the
\* source record is classified SKIP.
C22_WrittenRecordIsSkipped ==
  (router = "fos" /\ pc \in {"apply", "delete", "report"}) =>
     \A id \in (DOMAIN INPUT) \cap (DOMAIN cur) :
        cur[id] = FosDefaults(INPUT[id]) => FosUnchanged(id)


\* C23: a fos process that has ended exits with status 0 exactly when
\* Store_Destination returned (True, '') and no exception or exit cut the run
\* short, and exits with a status other than 0 whenever FinishActivity was given
\* a failed run.
C23_ExitStatusReflectsOutcome ==
  (router = "fos" /\ pc = "ended") =>
     /\ exitStatus = 0 <=> (rc = "true" /\ outcome = "finished")
     /\ (pa.finished >= 1 /\ pa.rc = "false") => exitStatus # 0

=============================================================================
